---------------------------- MODULE Spec2Model ----------------------------
(***************************************************************************)
(* Model of the node-oberon native binding (src/native/src/lib.rs): the    *)
(* five exported functions newKeys, newBlinding, newToken, blindToken and  *)
(* newProofTimestamp, each a synchronous handler over byte buffers.        *)
(*                                                                         *)
(* The oberon crate (SecretKey, PublicKey, Blinding, Token, Proof) is an   *)
(* external collaborator.  Its group G1 is a cyclic group of prime order,  *)
(* modelled here as the integers modulo GroupOrder; its fixed-width        *)
(* encodings are modelled as big-endian byte strings of scaled-down width. *)
(* A handler's outcome is one of                                           *)
(*    Ok     - Ok(result) : the JS object is returned                      *)
(*    Throw  - Err(Throw) : the handler returned the neon Throw marker     *)
(*    Panic  - an unwrap() on an empty option panicked                     *)
(* together with the source line at which the handler left.                *)
(***************************************************************************)
EXTENDS Integers, Sequences, FiniteSets

(***************************************************************************)
(* Bounds of the model.  The *BYTES widths stand for the oberon crate's    *)
(* SecretKey::BYTES, PublicKey::BYTES, Token::BYTES, Blinding::BYTES and   *)
(* Proof::BYTES, scaled down; the handlers only ever compare a buffer's    *)
(* length with them.                                                       *)
(***************************************************************************)
GroupOrder == 5

SecretKeyBYTES == 2

PublicKeyBYTES == 2

TokenBYTES == 2

BlindingBYTES == 2

ProofBYTES == 3

MaxBlindings == 2

MaxTicks == 2

ClockStep == 257

\* width of u128: Duration::as_micros() returns u128, to_be_bytes() its 16 bytes
U128_BYTES == 16

Elements == 0 .. (GroupOrder - 1)

(***************************************************************************)
(* Options as the oberon constructors return them (Option / CtOption).     *)
(***************************************************************************)
None == [some |-> FALSE, v |-> 0]

Some(x) == [some |-> TRUE, v |-> x]

(***************************************************************************)
(* Byte strings.                                                           *)
(***************************************************************************)
RECURSIVE BigEndian(_, _)
\* the low `w` bytes of n, most significant first
BigEndian(n, w) ==
    IF w = 0 THEN <<>> ELSE Append(BigEndian(n \div 256, w - 1), n % 256)

RECURSIVE LittleEndian(_, _)
LittleEndian(n, w) ==
    IF w = 0 THEN <<>> ELSE <<n % 256>> \o LittleEndian(n \div 256, w - 1)

RECURSIVE FromBigEndian(_)
\* the unsigned number a byte string denotes, most significant byte first
FromBigEndian(b) ==
    IF Len(b) = 0 THEN 0
    ELSE 256 * FromBigEndian(SubSeq(b, 1, Len(b) - 1)) + b[Len(b)]

to_le_bytes(micros) == LittleEndian(micros, U128_BYTES)

\* u128::to_be_bytes (line 158)
to_be_bytes(micros) == BigEndian(micros, U128_BYTES)

RECURSIVE HashToScalar(_)
\* the crate's hash of arbitrary bytes into the scalar field: a fixed
\* function of the bytes
HashToScalar(data) ==
    IF Len(data) = 0 THEN 0
    ELSE (31 * HashToScalar(SubSeq(data, 1, Len(data) - 1))
             + data[Len(data)] + 1) % GroupOrder

RECURSIVE GroupSum(_)
GroupSum(s) ==
    IF Len(s) = 0 THEN 0 ELSE (s[1] + GroupSum(Tail(s))) % GroupOrder

(***************************************************************************)
(* The oberon crate, as used by the handlers.                              *)
(***************************************************************************)
\* a canonical fixed-width decoding: fails on a non-canonical encoding
Decode(bytes) ==
    IF FromBigEndian(bytes) < GroupOrder THEN Some(FromBigEndian(bytes)) ELSE None

SecretKeyHash(seed) == HashToScalar(seed)

\* SecretKey::new(rng): the scalar the random source hands out
SecretKeyNew(r) == r

SecretKeyFromBytes(bytes) == Decode(bytes)

SecretKeyToBytes(sk) == BigEndian(sk, SecretKeyBYTES)

\* PublicKey::from(&sk): the generator's multiple by the secret scalar
PublicKeyFrom(sk) == (2 * sk) % GroupOrder

PublicKeyToBytes(pk) == BigEndian(pk, PublicKeyBYTES)

BlindingNew(data) == HashToScalar(data)

BlindingFromBytes(bytes) == Decode(bytes)

BlindingToBytes(b) == BigEndian(b, BlindingBYTES)

TokenFromBytes(bytes) == Decode(bytes)

TokenToBytes(t) == BigEndian(t, TokenBYTES)

\* Token::new: no token for an identifier that hashes to the zero scalar
TokenNew(sk, id) ==
    IF HashToScalar(id) = 0 THEN None
    ELSE Some((sk * HashToScalar(id)) % GroupOrder)

\* impl Sub<Blinding> for Token
TokenSub(t, b) == (t - b + GroupOrder) % GroupOrder

\* Proof::new: no proof for an identifier that hashes to the zero scalar;
\* otherwise a commitment under the random scalar r and a response over the
\* unblinded token, bound to the nonce
ProofNew(token, blindings, id, nonce, r) ==
    IF HashToScalar(id) = 0 THEN None
    ELSE Some([u |-> (r * HashToScalar(id)) % GroupOrder,
               z |-> (r * ((token + GroupSum(blindings)) % GroupOrder)
                        + HashToScalar(nonce \o id)) % GroupOrder])

ProofToBytes(p) == BigEndian(p.u * GroupOrder + p.z, ProofBYTES)


(***************************************************************************)
(* Outcomes of a handler: how it left (kind, line), the JS object it       *)
(* returned (a function from property names to buffers; none unless Ok)    *)
(* and what it did to its environment on the way (fx): how often the       *)
(* system clock was read, how many OsRng instances were handed to the      *)
(* crate, and the arguments (and whether a proof was made) of every        *)
(* Proof::new invocation.                                                  *)
(***************************************************************************)
NoObject == <<>>

NoEffects == [clock |-> 0, rng |-> 0, proofNew |-> <<>>]

Ok(line, obj, fx) == [kind |-> "Ok", line |-> line, obj |-> obj, fx |-> fx]

\* return Err(Throw), and the `?` on a failed ok_or_else(|| Throw)
Throw(line, fx) == [kind |-> "Throw", line |-> line, obj |-> NoObject, fx |-> fx]

\* unwrap() of an empty Option / CtOption
Panic(line, fx) == [kind |-> "Panic", line |-> line, obj |-> NoObject, fx |-> fx]

(***************************************************************************)
(* new_keys (lines 35-55).  seed is None when the caller passed no         *)
(* argument (cx.argument_opt(0)); r is what OsRng hands out if asked.      *)
(***************************************************************************)
new_keys_seed_salted(seed, r) ==
    LET sk == IF seed.some THEN (SecretKeyHash(seed.v) + r) % GroupOrder
                           ELSE SecretKeyNew(r)
        pk == PublicKeyFrom(sk)
    IN  Ok(54, [secretKey |-> SecretKeyToBytes(sk), publicKey |-> PublicKeyToBytes(pk)],
           [NoEffects EXCEPT !.rng = 1])

new_keys(seed, r) ==
    LET sk == IF seed.some THEN SecretKeyHash(seed.v) ELSE SecretKeyNew(r)
        pk == PublicKeyFrom(sk)
    IN  Ok(54, [secretKey |-> SecretKeyToBytes(sk), publicKey |-> PublicKeyToBytes(pk)],
           [NoEffects EXCEPT !.rng = IF seed.some THEN 0 ELSE 1])

(***************************************************************************)
(* new_blinding (lines 61-71).                                             *)
(***************************************************************************)
new_blinding(blinding_data) ==
    Ok(70, [blinding |-> BlindingToBytes(BlindingNew(blinding_data))], NoEffects)

(***************************************************************************)
(* new_token (lines 78-97).                                                *)
(***************************************************************************)
new_token(id_bytes, sk_bytes) ==
    IF Len(sk_bytes) # SecretKeyBYTES THEN Throw(86, NoEffects)
    ELSE LET sk == SecretKeyFromBytes(sk_bytes) IN
         IF ~sk.some THEN Panic(89, NoEffects)
         ELSE LET token == TokenNew(sk.v, id_bytes) IN
              IF ~token.some THEN Throw(90, NoEffects)
              ELSE Ok(96, [token |-> TokenToBytes(token.v)], NoEffects)

(***************************************************************************)
(* blind_token (lines 104-125).                                            *)
(***************************************************************************)
blind_token_and(token_bytes, blinding_bytes) ==
    IF Len(token_bytes) # TokenBYTES /\ Len(blinding_bytes) # BlindingBYTES
    THEN Throw(113, NoEffects)
    ELSE IF Len(token_bytes) # TokenBYTES THEN Panic(116, NoEffects)
    ELSE IF Len(blinding_bytes) # BlindingBYTES THEN Panic(117, NoEffects)
    ELSE LET token == TokenFromBytes(token_bytes)
             blinding == BlindingFromBytes(blinding_bytes) IN
         IF ~token.some THEN Panic(116, NoEffects)
         ELSE IF ~blinding.some THEN Panic(117, NoEffects)
         ELSE Ok(124, [token |-> TokenToBytes(TokenSub(token.v, blinding.v))], NoEffects)

blind_token_reversed(token_bytes, blinding_bytes) ==
    IF Len(token_bytes) # TokenBYTES \/ Len(blinding_bytes) # BlindingBYTES
    THEN Throw(113, NoEffects)
    ELSE LET token == TokenFromBytes(token_bytes)
             blinding == BlindingFromBytes(blinding_bytes) IN
         IF ~token.some THEN Panic(116, NoEffects)
         ELSE IF ~blinding.some THEN Panic(117, NoEffects)
         ELSE Ok(124, [token |-> TokenToBytes(TokenSub(blinding.v, token.v))], NoEffects)

blind_token(token_bytes, blinding_bytes) ==
    IF Len(token_bytes) # TokenBYTES \/ Len(blinding_bytes) # BlindingBYTES
    THEN Throw(113, NoEffects)
    ELSE LET token == TokenFromBytes(token_bytes)
             blinding == BlindingFromBytes(blinding_bytes) IN
         IF ~token.some THEN Panic(116, NoEffects)
         ELSE IF ~blinding.some THEN Panic(117, NoEffects)
         ELSE Ok(124, [token |-> TokenToBytes(TokenSub(token.v, blinding.v))], NoEffects)

(***************************************************************************)
(* new_proof_timestamp (lines 135-170).                                    *)
(***************************************************************************)
RECURSIVE decode_blindings(_, _)
\* the loop of lines 146-155 over the elements still to visit: the line it
\* left the handler at (0: it ran to its end) and the blindings pushed
decode_blindings(blindings_vec, blindings) ==
    IF Len(blindings_vec) = 0 THEN [exit |-> 0, blindings |-> blindings]
    ELSE IF Len(Head(blindings_vec)) # BlindingBYTES
         THEN [exit |-> 151, blindings |-> blindings]
    ELSE IF ~BlindingFromBytes(Head(blindings_vec)).some
         THEN [exit |-> 153, blindings |-> blindings]
    ELSE decode_blindings(Tail(blindings_vec),
                          Append(blindings, BlindingFromBytes(Head(blindings_vec)).v))

\* the tail of the handler from the clock read on (lines 157-169); `fresh`
\* is the clock value the returned timestamp is taken from
proof_with_nonce(token_bytes, id_bytes, blindings, now, fresh, reads, r) ==
    LET timestamp_bytes == to_be_bytes(now)
        token == TokenFromBytes(token_bytes)
        clocked == [NoEffects EXCEPT !.clock = reads] IN
    IF ~token.some THEN Panic(159, clocked)
    ELSE LET proof == ProofNew(token.v, blindings, id_bytes, timestamp_bytes, r)
             fx == [clocked EXCEPT !.rng = 1,
                        !.proofNew = <<[token |-> token.v, blindings |-> blindings,
                                        id |-> id_bytes, nonce |-> timestamp_bytes,
                                        made |-> proof.some]>>] IN
         IF ~proof.some THEN Throw(162, fx)
         ELSE Ok(169, [proof |-> ProofToBytes(proof.v),
                       timestamp |-> to_be_bytes(fresh)], fx)

new_proof_timestamp_rereads_clock(token_bytes, id_bytes, blindings_vec, now, r) ==
    IF Len(token_bytes) # TokenBYTES THEN Throw(142, NoEffects)
    ELSE LET loop == decode_blindings(blindings_vec, <<>>) IN
         IF loop.exit = 151 THEN Throw(151, NoEffects)
         ELSE IF loop.exit = 153 THEN Panic(153, NoEffects)
         ELSE proof_with_nonce(token_bytes, id_bytes, loop.blindings, now, now + 1, 2, r)

new_proof_timestamp_needs_blinding(token_bytes, id_bytes, blindings_vec, now, r) ==
    IF Len(token_bytes) # TokenBYTES \/ Len(blindings_vec) = 0 THEN Throw(142, NoEffects)
    ELSE LET loop == decode_blindings(blindings_vec, <<>>) IN
         IF loop.exit = 151 THEN Throw(151, NoEffects)
         ELSE IF loop.exit = 153 THEN Panic(153, NoEffects)
         ELSE proof_with_nonce(token_bytes, id_bytes, loop.blindings, now, now, 1, r)

new_proof_timestamp(token_bytes, id_bytes, blindings_vec, now, r) ==
    IF Len(token_bytes) # TokenBYTES THEN Throw(142, NoEffects)
    ELSE LET loop == decode_blindings(blindings_vec, <<>>) IN
         IF loop.exit = 151 THEN Throw(151, NoEffects)
         ELSE IF loop.exit = 153 THEN Panic(153, NoEffects)
         ELSE proof_with_nonce(token_bytes, id_bytes, loop.blindings, now, now, 1, r)

(***************************************************************************)
(* What callers pass.  For a fixed width w: every canonical encoding, one  *)
(* buffer of the right length that is no canonical encoding, one buffer a  *)
(* byte short and one a byte long.                                         *)
(***************************************************************************)
WellFormed(w) == {BigEndian(k, w) : k \in Elements}

BadEncoding(w) == BigEndian(GroupOrder, w)

TooShort(w) == BigEndian(1, w - 1)

TooLong(w) == BigEndian(1, w + 1)

Buffers(w) == WellFormed(w) \cup {BadEncoding(w), TooShort(w), TooLong(w)}

\* identifiers, seeds and blinding salts: arbitrary bytes; the empty string
\* stands for the inputs the crate's hash sends to the zero scalar
Ids == {<<>>, <<0>>, <<1>>}

Seeds == {<<>>, <<0>>, <<1>>, <<0, 1>>}

RECURSIVE ListsUpTo(_, _)
\* the lists of at most n elements of S
ListsUpTo(S, n) ==
    IF n = 0 THEN {<<>>}
    ELSE ListsUpTo(S, n - 1)
           \cup {Append(l, x) : l \in {m \in ListsUpTo(S, n - 1) : Len(m) = n - 1}, x \in S}

\* SystemTime::now() as microseconds since UNIX_EPOCH (the clock is taken
\* not to be set before the epoch)
ClockValues == {t * ClockStep : t \in 0 .. MaxTicks}

\* what OsRng hands out
RngValues == Elements

(***************************************************************************)
(* State.  The JS thread runs one handler at a time, to completion.        *)
(*   pc      "idle" between calls, "returned" when a handler has left      *)
(*   call    the handler last invoked: its name, its arguments and what    *)
(*           the clock and the random source held for it                   *)
(*   ret     its outcome                                                   *)
(*   keyLog  every (seed, secretKey, publicKey) a seeded newKeys returned  *)
(*   orig, held, applied                                                   *)
(*           a holder's token as issued, as it is now, and the blinding    *)
(*           buffers blindToken has applied to it so far                   *)
(***************************************************************************)
VARIABLES pc, call, ret, keyLog, orig, held, applied

vars == <<pc, call, ret, keyLog, orig, held, applied>>

NoCall == [fn |-> "none", args |-> <<>>, now |-> 0, r |-> 0]

NoRet == [kind |-> "none", line |-> 0, obj |-> NoObject, fx |-> NoEffects]

Init ==
    /\ pc = "idle"
    /\ call = NoCall
    /\ ret = NoRet
    /\ keyLog = {}
    /\ orig = <<>>
    /\ held = <<>>
    /\ applied = <<>>

\* the handler `fn` runs on `args` and leaves with `out`
Invoke(fn, args, now, r, out) ==
    /\ pc' = "returned"
    /\ call' = [fn |-> fn, args |-> args, now |-> now, r |-> r]
    /\ ret' = out

\* the caller takes the outcome; the next call may start
Resume ==
    /\ pc = "returned"
    /\ pc' = "idle"
    /\ call' = NoCall
    /\ ret' = NoRet
    /\ UNCHANGED <<keyLog, orig, held, applied>>

NewKeys ==
    /\ pc = "idle"
    /\ \E seed \in {None} \cup {Some(s) : s \in Seeds}, r \in RngValues :
          Invoke("newKeys", <<seed>>, 0, r, new_keys(seed, r))
    /\ UNCHANGED <<keyLog, orig, held, applied>>

NewBlinding ==
    /\ pc = "idle"
    /\ \E data \in Seeds : Invoke("newBlinding", <<data>>, 0, 0, new_blinding(data))
    /\ UNCHANGED <<keyLog, orig, held, applied>>

NewToken ==
    /\ pc = "idle"
    /\ \E id \in Ids, sk \in Buffers(SecretKeyBYTES) :
          Invoke("newToken", <<id, sk>>, 0, 0, new_token(id, sk))
    /\ UNCHANGED <<keyLog, orig, held, applied>>

BlindToken ==
    /\ pc = "idle"
    /\ \E t \in Buffers(TokenBYTES), b \in Buffers(BlindingBYTES) :
          Invoke("blindToken", <<t, b>>, 0, 0, blind_token(t, b))
    /\ UNCHANGED <<keyLog, orig, held, applied>>

NewProofTimestamp ==
    /\ pc = "idle"
    /\ \E t \in Buffers(TokenBYTES), id \in Ids,
          bs \in ListsUpTo(Buffers(BlindingBYTES), MaxBlindings),
          now \in ClockValues, r \in RngValues :
          Invoke("newProofTimestamp", <<t, id, bs>>, now, r,
                 new_proof_timestamp(t, id, bs, now, r))
    /\ UNCHANGED <<keyLog, orig, held, applied>>

Next == NewKeys \/ NewBlinding \/ NewToken \/ BlindToken \/ NewProofTimestamp \/ Resume

Spec == Init /\ [][Next]_vars

(***************************************************************************)
(* The key manager on its own: the caller files every seeded key pair it   *)
(* is handed.                                                              *)
(***************************************************************************)
FileKeys ==
    /\ pc = "returned"
    /\ pc' = "idle"
    /\ call' = NoCall
    /\ ret' = NoRet
    /\ keyLog' = IF call.args[1].some
                 THEN keyLog \cup {[seed |-> call.args[1].v, keys |-> ret.obj]}
                 ELSE keyLog
    /\ UNCHANGED <<orig, held, applied>>

NextKeys == NewKeys \/ FileKeys

SpecKeys == Init /\ [][NextKeys]_vars

(***************************************************************************)
(* A holder's session: a token is issued, then blinded one call at a time. *)
(***************************************************************************)
IssueToken ==
    /\ pc = "idle"
    /\ orig = <<>>
    /\ \E id \in Ids, sk \in WellFormed(SecretKeyBYTES) :
          LET out == new_token(id, sk) IN
          /\ Invoke("newToken", <<id, sk>>, 0, 0, out)
          /\ orig' = IF out.kind = "Ok" THEN out.obj.token ELSE orig
          /\ held' = IF out.kind = "Ok" THEN out.obj.token ELSE held
    /\ UNCHANGED <<keyLog, applied>>

BlindHeld ==
    /\ pc = "idle"
    /\ orig # <<>>
    /\ Len(applied) < MaxBlindings
    /\ \E b \in Buffers(BlindingBYTES) :
          LET out == blind_token(held, b) IN
          /\ Invoke("blindToken", <<held, b>>, 0, 0, out)
          /\ held' = IF out.kind = "Ok" THEN out.obj.token ELSE held
          /\ applied' = IF out.kind = "Ok" THEN Append(applied, b) ELSE applied
    /\ UNCHANGED <<keyLog, orig>>

\* the holder proves possession of the held token with the blindings applied
ProveHeld ==
    /\ pc = "idle"
    /\ orig # <<>>
    /\ \E id \in Ids, now \in ClockValues, r \in RngValues :
          Invoke("newProofTimestamp", <<held, id, applied>>, now, r,
                 new_proof_timestamp(held, id, applied, now, r))
    /\ UNCHANGED <<keyLog, orig, held, applied>>

NextSession == IssueToken \/ BlindHeld \/ ProveHeld \/ Resume

SpecSession == Init /\ [][NextSession]_vars

(***************************************************************************)
(* Vocabulary of the properties.                                           *)
(***************************************************************************)
Returned(fn) == pc = "returned" /\ call.fn = fn

\* a buffer of the width w that decodes
IsWellFormed(bytes, w) == Len(bytes) = w /\ Decode(bytes).some

NoObjectReturned == DOMAIN ret.obj = {}

\* what a caller can tell about an outcome: how the call ended and the
\* object it got (Err(Throw) carries nothing else)
Surfaced(out) == [kind |-> out.kind, obj |-> out.obj]

RECURSIVE BytesDenote(_, _)
\* the byte string b is the big-endian unsigned encoding of n
BytesDenote(b, n) ==
    IF Len(b) = 0 THEN n = 0
    ELSE /\ b[Len(b)] \in 0 .. 255
         /\ b[Len(b)] = n % 256
         /\ BytesDenote(SubSeq(b, 1, Len(b) - 1), n \div 256)

DecodedBlindings(bs) == [i \in 1 .. Len(bs) |-> BlindingFromBytes(bs[i]).v]

(***************************************************************************)
(* C1.  newToken with a malformed secret key (wrong length, or the right   *)
(* length but no valid scalar encoding) ends in the validation failure     *)
(* (the Err(Throw) of the length check), never in a panic, and returns no  *)
(* token.  The code violates it: a buffer of SecretKey::BYTES bytes that   *)
(* is no valid scalar reaches SecretKey::from_bytes(..).unwrap().          *)
(***************************************************************************)
C1_MalformedSecretKeyIsValidationError ==
    (/\ Returned("newToken")
     /\ ~IsWellFormed(call.args[2], SecretKeyBYTES))
    => (ret.kind = "Throw" /\ ret.line = 86 /\ NoObjectReturned)

(***************************************************************************)
(* C2 as claimed.  Every successful newProofTimestamp returns a timestamp  *)
(* of exactly 8 bytes that is the big-endian encoding of the microseconds  *)
(* since the epoch.                                                        *)
(***************************************************************************)
C2_TimestampIs8Bytes ==
    (Returned("newProofTimestamp") /\ ret.kind = "Ok")
    => (Len(ret.obj.timestamp) = 8 /\ BytesDenote(ret.obj.timestamp, call.now))

(***************************************************************************)
(* C2 as amended.  Every successful newProofTimestamp returns a timestamp  *)
(* of exactly 16 bytes (the width of u128) that is the big-endian unsigned *)
(* encoding of the microseconds since the epoch at proof creation.         *)
(***************************************************************************)
C2_TimestampIs16BytesBigEndian ==
    (Returned("newProofTimestamp") /\ ret.kind = "Ok")
    => (Len(ret.obj.timestamp) = 16 /\ BytesDenote(ret.obj.timestamp, call.now))

C2_Witness ==
    /\ Returned("newProofTimestamp")
    /\ ret.kind = "Ok"
    /\ call.now > 256

(***************************************************************************)
(* C3.  A call that fails in construction (Token::new or Proof::new made   *)
(* nothing) surfaces an outcome different from the one the same handler    *)
(* surfaces for a wrong-length input, and a failing call returns no        *)
(* object.  The code violates it: both leave with the same Err(Throw).     *)
(***************************************************************************)
C3_ConstructionFailureDiffersFromValidationFailure ==
    /\ (pc = "returned" /\ ret.kind # "Ok") => NoObjectReturned
    /\ (Returned("newToken") /\ ret.line = 90)
         => Surfaced(ret) # Surfaced(new_token(call.args[1], TooShort(SecretKeyBYTES)))
    /\ (Returned("newProofTimestamp") /\ ret.line = 162)
         => Surfaced(ret) # Surfaced(new_proof_timestamp(TooShort(TokenBYTES), call.args[2],
                                                         call.args[3], call.now, call.r))

(***************************************************************************)
(* C4.  blindToken fails with the validation failure whenever the token    *)
(* buffer's length differs from Token::BYTES and whenever the blinding     *)
(* buffer's length differs from Blinding::BYTES, whatever the other        *)
(* operand is; no blinded token is returned.                               *)
(***************************************************************************)
C4_BlindTokenRejectsWrongLength ==
    (/\ Returned("blindToken")
     /\ \/ Len(call.args[1]) # TokenBYTES
        \/ Len(call.args[2]) # BlindingBYTES)
    => (ret.kind = "Throw" /\ ret.line = 113 /\ NoObjectReturned)

C4_Witness ==
    /\ Returned("blindToken")
    /\ IsWellFormed(call.args[1], TokenBYTES)
    /\ Len(call.args[2]) = BlindingBYTES + 1
    /\ ret.kind = "Throw"

(***************************************************************************)
(* C5.  newProofTimestamp with a token of the wrong length, or with a      *)
(* blinding of the wrong length at any position of the list, ends in the   *)
(* validation failure, with the clock not read, no randomness handed out   *)
(* and Proof::new not invoked.  The code violates it: a blinding of the    *)
(* right length that does not decode, ahead of the one of the wrong        *)
(* length, panics at Blinding::from_bytes(..).unwrap().                    *)
(***************************************************************************)
C5_MalformedInputIsValidationErrorBeforeCrypto ==
    (/\ Returned("newProofTimestamp")
     /\ \/ Len(call.args[1]) # TokenBYTES
        \/ \E i \in 1 .. Len(call.args[3]) : Len(call.args[3][i]) # BlindingBYTES)
    => (/\ ret.kind = "Throw"
        /\ ret.line \in {142, 151}
        /\ ret.fx = NoEffects)

(***************************************************************************)
(* C9.  newProofTimestamp with a well-formed token and an empty blinding   *)
(* list never ends in the validation failure (nor in a panic); it invokes  *)
(* Proof::new once, with an empty witness list, and when that makes a      *)
(* proof the call returns an object holding both proof and timestamp.      *)
(***************************************************************************)
C9_EmptyBlindingListAccepted ==
    (/\ Returned("newProofTimestamp")
     /\ IsWellFormed(call.args[1], TokenBYTES)
     /\ call.args[3] = <<>>)
    => (/\ ret.line \notin {142, 151}
        /\ ret.kind # "Panic"
        /\ Len(ret.fx.proofNew) = 1
        /\ ret.fx.proofNew[1].blindings = <<>>
        /\ ret.fx.proofNew[1].made
             => (ret.kind = "Ok" /\ DOMAIN ret.obj = {"proof", "timestamp"}))

C9_Witness ==
    /\ Returned("newProofTimestamp")
    /\ IsWellFormed(call.args[1], TokenBYTES)
    /\ call.args[3] = <<>>
    /\ ret.kind = "Ok"
    /\ Len(ret.obj.proof) = ProofBYTES

(***************************************************************************)
(* C10.  A newProofTimestamp call whose inputs are all well-formed reads   *)
(* the system clock exactly once and hands Proof::new the blindings in the *)
(* order and number supplied; the timestamp it returns is the nonce that   *)
(* was handed to Proof::new.                                               *)
(***************************************************************************)
C10_ClockReadOnceNonceReturned ==
    (/\ Returned("newProofTimestamp")
     /\ IsWellFormed(call.args[1], TokenBYTES)
     /\ \A i \in 1 .. Len(call.args[3]) : IsWellFormed(call.args[3][i], BlindingBYTES))
    => (/\ ret.fx.clock = 1
        /\ Len(ret.fx.proofNew) = 1
        /\ ret.fx.proofNew[1].blindings = DecodedBlindings(call.args[3])
        /\ ret.kind = "Ok" => ret.obj.timestamp = ret.fx.proofNew[1].nonce)

C10_Witness ==
    /\ Returned("newProofTimestamp")
    /\ ret.kind = "Ok"
    /\ Len(call.args[3]) = 2
    /\ call.args[3][1] # call.args[3][2]
    /\ ret.fx.clock = 1
    /\ call.now > 0

RECURSIVE BlindAll(_, _)
\* blindToken applied to the token t once per blinding buffer of bs, in order
BlindAll(t, bs) ==
    IF Len(bs) = 0 THEN t
    ELSE BlindAll(blind_token(t, Head(bs)).obj.token, Tail(bs))

\* the reorderings of the list bs
Reorderings(bs) ==
    {[i \in 1 .. Len(bs) |-> bs[p[i]]] :
        p \in {q \in [1 .. Len(bs) -> 1 .. Len(bs)] :
                  \A i, j \in 1 .. Len(bs) : q[i] = q[j] => i = j}}

(***************************************************************************)
(* C6.  Blinding is order-independent: the token a holder has after        *)
(* applying n blindings one blindToken call at a time is the issued token  *)
(* minus the group sum of the n blindings, and applying the same blindings *)
(* in any other order yields the same token.                               *)
(***************************************************************************)
C6_BlindingOrderIndependent ==
    orig # <<>>
    => (/\ held = TokenToBytes((TokenFromBytes(orig).v + GroupOrder
                                  - GroupSum(DecodedBlindings(applied))) % GroupOrder)
        /\ \A bs \in Reorderings(applied) : BlindAll(orig, bs) = held)

C6_Witness ==
    /\ Returned("blindToken")
    /\ ret.kind = "Ok"
    /\ Len(applied) = 2
    /\ applied[1] # applied[2]
    /\ held # orig

(***************************************************************************)
(* C8.  Seeded key generation is deterministic and the pair is consistent: *)
(* a newKeys call with a seed returns the pair every earlier call with     *)
(* that seed returned, and in every call, seeded or not, the public key    *)
(* returned is the one derived from the secret key returned.               *)
(***************************************************************************)
C8_SeededKeysDeterministicAndConsistent ==
    /\ \A a, b \in keyLog : a.seed = b.seed => a.keys = b.keys
    /\ Returned("newKeys") =>
         /\ ret.kind = "Ok"
         /\ DOMAIN ret.obj = {"secretKey", "publicKey"}
         /\ IsWellFormed(ret.obj.secretKey, SecretKeyBYTES)
         /\ ret.obj.publicKey
              = PublicKeyToBytes(PublicKeyFrom(SecretKeyFromBytes(ret.obj.secretKey).v))
         /\ call.args[1].some =>
              \A e \in keyLog : e.seed = call.args[1].v => e.keys = ret.obj

C8_Witness ==
    /\ Returned("newKeys")
    /\ call.args[1].some
    /\ \E e \in keyLog : e.seed = call.args[1].v /\ e.keys = ret.obj
    /\ \E e \in keyLog : e.seed # call.args[1].v /\ e.keys # ret.obj

=============================================================================
